---- MODULE Spec2Model ----
(***************************************************************************)
(* Model of src/ema_scanner.py: the EMA + ADX scanner.                     *)
(*                                                                         *)
(* Two specifications share this module.                                   *)
(*   Spec     main(): the scan over the target list, the per-signal alert  *)
(*            and the run summary.  The price frame that yf.download       *)
(*            returns is external input; the specification draws the bar   *)
(*            count and the last two indicator rows from small sets.       *)
(*   SpecInd  the per-target pipeline of main() (lines 151-169) on a       *)
(*            concrete price frame, with calculate_indicators computed     *)
(*            bar by bar in exact rational arithmetic.                     *)
(*                                                                         *)
(* Floating-point values are idealised as exact rationals plus the two     *)
(* IEEE specials the code can produce, NaN (0/0) and infinity (x/0).       *)
(***************************************************************************)
EXTENDS Integers, Sequences, FiniteSets, TLC

VARIABLES
    \* ---- main() ----
    listState,      \* best_ema_results.csv: "missing", "unreadable" or "ok"
    targets,        \* the rows of ema_df (cells are strings, as in the file)
    webhook,        \* DISCORD_WEBHOOK_URL is set
    pc,             \* position of main(): "start", "loop", "done", "crashed"
    idx,            \* 1-based index of the row the for loop is at
    cur,            \* locals of the current iteration: data, today, yesterday
    daily_signals,  \* the list daily_signals
    errlog,         \* the "Error scanning ..." lines printed by the except
    sends,          \* network sends performed: requests.post, SMTP
    \* ---- per-target pipeline on a concrete frame ----
    frame,          \* data: the downloaded bars
    fast, slow,     \* the row's periods
    ipc,            \* "fetched", "skipped", "accepted", "computed", "decided"
    ind,            \* the frame returned by calculate_indicators
    signal          \* bullish_cross and strong_trend

mainVars == <<listState, targets, webhook, pc, idx, cur, daily_signals, errlog, sends>>
indVars == <<frame, fast, slow, ipc, ind, signal>>
vars == <<listState, targets, webhook, pc, idx, cur, daily_signals, errlog, sends,
              frame, fast, slow, ipc, ind, signal>>

(***************************************************************************)
(* Program constants                                                       *)
(***************************************************************************)
ADX_THRESHOLD == 25
WarmupBars == 5
WilderN == 14

(***************************************************************************)
(* Numbers: exact rationals, NaN and +/- infinity                          *)
(***************************************************************************)
Abs(x) == IF x < 0 THEN -x ELSE x

RECURSIVE GCD(_, _)
GCD(a, b) == IF b = 0 THEN a ELSE GCD(b, a % b)

NaN == [k |-> "nan", n |-> 0, d |-> 1]
Inf(s) == [k |-> "inf", n |-> s, d |-> 1]
R(x) == [k |-> "num", n |-> x, d |-> 1]
Sign(x) == IF x < 0 THEN -1 ELSE 1

\* n/d in lowest terms, d > 0
Norm(n, d) ==
    LET g == GCD(Abs(n), d)
    IN  [k |-> "num", n |-> n \div g, d |-> d \div g]

IsNaN(a) == a.k = "nan"
IsNum(a) == a.k = "num"
IsZero(a) == a.k = "num" /\ a.n = 0

RNeg(a) == IF IsNum(a) THEN [a EXCEPT !.n = -a.n]
           ELSE IF IsNaN(a) THEN NaN ELSE Inf(-a.n)

RAbs(a) == IF IsNum(a) THEN [a EXCEPT !.n = Abs(a.n)]
           ELSE IF IsNaN(a) THEN NaN ELSE Inf(1)

RAdd(a, b) ==
    IF IsNaN(a) \/ IsNaN(b) THEN NaN
    ELSE IF ~IsNum(a) /\ ~IsNum(b) THEN (IF a.n = b.n THEN a ELSE NaN)
    ELSE IF ~IsNum(a) THEN a
    ELSE IF ~IsNum(b) THEN b
    ELSE LET g == GCD(a.d, b.d)
         IN  Norm(a.n * (b.d \div g) + b.n * (a.d \div g), (a.d \div g) * b.d)

RSub(a, b) == RAdd(a, RNeg(b))

RMul(a, b) ==
    IF IsNaN(a) \/ IsNaN(b) THEN NaN
    ELSE IF ~IsNum(a) \/ ~IsNum(b)
         THEN (IF IsZero(a) \/ IsZero(b) THEN NaN ELSE Inf(Sign(a.n) * Sign(b.n)))
    ELSE LET g1 == GCD(Abs(a.n), b.d)
             g2 == GCD(Abs(b.n), a.d)
         IN  Norm((a.n \div g1) * (b.n \div g2), (a.d \div g2) * (b.d \div g1))

\* IEEE division: 0/0 is NaN, x/0 is +/- infinity, nothing is raised
RDiv(a, b) ==
    IF IsNaN(a) \/ IsNaN(b) THEN NaN
    ELSE IF ~IsNum(b) THEN (IF IsNum(a) THEN R(0) ELSE NaN)
    ELSE IF ~IsNum(a) THEN Inf(a.n * (IF b.n < 0 THEN -1 ELSE 1))
    ELSE IF b.n = 0 THEN (IF a.n = 0 THEN NaN ELSE Inf(Sign(a.n)))
    ELSE RMul(a, [k |-> "num", n |-> Sign(b.n) * b.d, d |-> Abs(b.n)])

\* comparisons: every comparison with NaN is False
RLt(a, b) ==
    IF IsNaN(a) \/ IsNaN(b) THEN FALSE
    ELSE IF ~IsNum(a) THEN a.n < 0 /\ ~(~IsNum(b) /\ b.n < 0)
    ELSE IF ~IsNum(b) THEN b.n > 0
    ELSE a.n * b.d < b.n * a.d
REq(a, b) == ~IsNaN(a) /\ ~IsNaN(b) /\ a = b
RLe(a, b) == RLt(a, b) \/ REq(a, b)
RGt(a, b) == RLt(b, a)
RGe(a, b) == RLe(b, a)

\* max over a row with skipna=True (DataFrame.max(axis=1))
RECURSIVE RMaxSkipNa(_)
RMaxSkipNa(s) ==
    IF Len(s) = 0 THEN NaN
    ELSE LET r == RMaxSkipNa(Tail(s))
         IN  IF IsNaN(Head(s)) THEN r
             ELSE IF IsNaN(r) THEN Head(s)
             ELSE IF RGt(r, Head(s)) THEN r ELSE Head(s)

(***************************************************************************)
(* pandas Series.ewm(...).mean(), ignore_na=False, min_periods=0           *)
(*   alpha   the smoothing factor                                          *)
(*   adjust  True: weighted average with weights (1-alpha)^k               *)
(*           False: the recursion y[i] = (1-alpha)*y[i-1] + alpha*x[i]     *)
(* A NaN observation leaves the running value unchanged and ages the       *)
(* weights; a run that starts with NaN is seeded at the first defined      *)
(* value.                                                                  *)
(***************************************************************************)
RECURSIVE EwmFrom(_, _, _, _, _, _, _)
EwmFrom(xs, i, weighted, old_wt, alpha, adjust, out) ==
    IF i > Len(xs) THEN out
    ELSE
      LET x      == xs[i]
          isObs  == ~IsNaN(x)
          new_wt == IF adjust THEN R(1) ELSE alpha
          aged   == RMul(old_wt, RSub(R(1), alpha))
          w2     == IF ~IsNaN(weighted)
                    THEN IF isObs /\ weighted # x
                         THEN RDiv(RAdd(RMul(aged, weighted), RMul(new_wt, x)),
                                   RAdd(aged, new_wt))
                         ELSE weighted
                    ELSE IF isObs THEN x ELSE weighted
          ow2    == IF ~IsNaN(weighted)
                    THEN IF isObs
                         THEN (IF adjust THEN RAdd(aged, new_wt) ELSE R(1))
                         ELSE aged
                    ELSE old_wt
      IN  EwmFrom(xs, i + 1, w2, ow2, alpha, adjust, Append(out, w2))

Ewm(xs, alpha, adjust) ==
    IF Len(xs) = 0 THEN <<>>
    ELSE EwmFrom(xs, 2, xs[1], R(1), alpha, adjust, <<xs[1]>>)

\* ewm(span=p): alpha = 2 / (p + 1)
SpanAlpha(p) == Norm(2, p + 1)
\* ewm(alpha=1/14)
WilderAlpha == Norm(1, WilderN)

(***************************************************************************)
(* calculate_indicators(df, fast, slow)                                    *)
(* df is a sequence of bars [High, Low, Close]; the result has one row per *)
(* bar.  sPlusDM and sMinusDM are the two unnamed smoothed series of lines *)
(* 96 and 97.  With exact arithmetic 100 * |a| / b is evaluated as         *)
(* 100 * (|a| / b), which is the same number.                              *)
(***************************************************************************)
calculate_indicators(df, f, s) ==
    LET n        == Len(df)
        Close    == [i \in 1..n |-> R(df[i].Close)]
        High     == [i \in 1..n |-> R(df[i].High)]
        Low      == [i \in 1..n |-> R(df[i].Low)]
        Shift(c) == [i \in 1..n |-> IF i = 1 THEN NaN ELSE c[i - 1]]
        Fast_EMA == Ewm(Close, SpanAlpha(f), FALSE)
        Slow_EMA == Ewm(Close, SpanAlpha(s), FALSE)
        UpMove   == [i \in 1..n |-> RSub(High[i], Shift(High)[i])]
        DownMove == [i \in 1..n |-> RSub(Shift(Low)[i], Low[i])]
        PlusDM   == [i \in 1..n |->
                       IF RGt(UpMove[i], DownMove[i]) /\ RGt(UpMove[i], R(0))
                       THEN UpMove[i] ELSE R(0)]
        MinusDM  == [i \in 1..n |->
                       IF RGt(DownMove[i], UpMove[i]) /\ RGt(DownMove[i], R(0))
                       THEN DownMove[i] ELSE R(0)]
        TR       == [i \in 1..n |->
                       RMaxSkipNa(<<RSub(High[i], Low[i]),
                                    RAbs(RSub(High[i], Shift(Close)[i])),
                                    RAbs(RSub(Low[i], Shift(Close)[i]))>>)]
        TR14     == Ewm(TR, WilderAlpha, FALSE)
        sPlusDM  == Ewm(PlusDM, WilderAlpha, TRUE)
        sMinusDM == Ewm(MinusDM, WilderAlpha, TRUE)
        PlusDI14 == [i \in 1..n |-> RMul(R(100), RDiv(sPlusDM[i], TR14[i]))]
        MinusDI14 == [i \in 1..n |-> RMul(R(100), RDiv(sMinusDM[i], TR14[i]))]
        DX       == [i \in 1..n |->
                       RMul(R(100), RDiv(RAbs(RSub(PlusDI14[i], MinusDI14[i])),
                                         RAdd(PlusDI14[i], MinusDI14[i])))]
        ADX      == Ewm(DX, WilderAlpha, TRUE)
    IN  [i \in 1..n |->
           [Close |-> Close[i], Fast_EMA |-> Fast_EMA[i], Slow_EMA |-> Slow_EMA[i],
            PlusDM |-> PlusDM[i], MinusDM |-> MinusDM[i], TR |-> TR[i],
            TR14 |-> TR14[i], sPlusDM |-> sPlusDM[i], sMinusDM |-> sMinusDM[i],
            PlusDI14 |-> PlusDI14[i], MinusDI14 |-> MinusDI14[i],
            DX |-> DX[i], ADX |-> ADX[i]]]

(***************************************************************************)
(* The signal test of main(), lines 159-169                                *)
(***************************************************************************)
\* variant: yesterday must be strictly below (the stricter `<` crossover)
bullish_cross_strict(yesterday, today) ==
    /\ RLt(yesterday.Fast_EMA, yesterday.Slow_EMA)
    /\ RGt(today.Fast_EMA, today.Slow_EMA)

bullish_cross(yesterday, today) ==
    /\ RLe(yesterday.Fast_EMA, yesterday.Slow_EMA)
    /\ RGt(today.Fast_EMA, today.Slow_EMA)

strong_trend(today) == RGe(today.ADX, R(ADX_THRESHOLD))

\* variant: the limit itself is rejected (`<=`)
TooShort_inclusive(n, s) == n <= s + WarmupBars

\* len(data) < slow + 5
TooShort(n, s) == n < s + WarmupBars

(***************************************************************************)
(* SpecInd: lines 151-169 of main() on a concrete frame                    *)
(*                                                                         *)
(* Frames: every bar but the last has the same High and Low (the close     *)
(* moves freely inside that range), the last bar is free.  This is the     *)
(* family in which a division by zero happens: the smoothed directional    *)
(* movements are zero up to yesterday, and the smoothed true range is zero *)
(* as well when High = Low.                                                *)
(***************************************************************************)
Prices == {1, 2}
Periods == {1, 2}
BarSet == {b \in [High : Prices, Low : Prices, Close : Prices] :
              b.Low <= b.Close /\ b.Close <= b.High}
FrameLens == {WarmupBars, WarmupBars + 1}
Frames ==
    UNION {{f \in [1..n -> BarSet] :
               \A i \in 1..(n - 2) : f[i].High = f[i + 1].High /\ f[i].Low = f[i + 1].Low}
           : n \in FrameLens}

NoRows == <<>>

\* main() is idle in SpecInd
MainIdle ==
    /\ listState = "ok" /\ targets = <<>> /\ webhook = FALSE /\ pc = "done"
    /\ idx = 1 /\ cur = [kind |-> "none"] /\ daily_signals = <<>>
    /\ errlog = <<>> /\ sends = <<>>

InitInd ==
    /\ MainIdle
    /\ frame \in Frames
    /\ fast \in Periods
    /\ slow \in Periods
    /\ ipc = "fetched"
    /\ ind = NoRows
    /\ signal = FALSE

\* line 151-152: if len(data) < slow + 5: continue
IndSkip ==
    /\ ipc = "fetched"
    /\ TooShort(Len(frame), slow)
    /\ ipc' = "skipped"
    /\ UNCHANGED <<frame, fast, slow, ind, signal>>
    /\ UNCHANGED mainVars

IndAccept ==
    /\ ipc = "fetched"
    /\ ~TooShort(Len(frame), slow)
    /\ ipc' = "accepted"
    /\ UNCHANGED <<frame, fast, slow, ind, signal>>
    /\ UNCHANGED mainVars

\* line 157: data = calculate_indicators(data, fast, slow)
IndCompute ==
    /\ ipc = "accepted"
    /\ ind' = calculate_indicators(frame, fast, slow)
    /\ ipc' = "computed"
    /\ UNCHANGED <<frame, fast, slow, signal>>
    /\ UNCHANGED mainVars

\* lines 159-169: today, yesterday, bullish_cross and strong_trend
IndDetect ==
    /\ ipc = "computed"
    /\ LET today     == ind[Len(ind)]
           yesterday == ind[Len(ind) - 1]
       IN  signal' = (bullish_cross(yesterday, today) /\ strong_trend(today))
    /\ ipc' = "decided"
    /\ UNCHANGED <<frame, fast, slow, ind>>
    /\ UNCHANGED mainVars

NextInd == IndSkip \/ IndAccept \/ IndCompute \/ IndDetect

SpecInd == InitInd /\ [][NextInd]_vars

(***************************************************************************)
(* Spec: main()                                                            *)
(***************************************************************************)
MaxTargets == 3

\* int(cell): the cells that parse, and their values; any other cell raises
\* ValueError
IntOf == ("2" :> 2) @@ ("5" :> 5)
ParsesAsInt(cell) == cell \in DOMAIN IntOf

\* rows of best_ema_results.csv
RowSet == {[Ticker |-> "AAA", Fast |-> "2", Slow |-> "5"],
           [Ticker |-> "BBB", Fast |-> "abc", Slow |-> "5"],
           [Ticker |-> "CCC", Fast |-> "2", Slow |-> "abc"]}
TargetLists == UNION {[1..n -> RowSet] : n \in 0..MaxTargets}

WellFormed(row) == ParsesAsInt(row.Fast) /\ ParsesAsInt(row.Slow)

\* what yf.download can return for a row: bar counts around the limit, and
\* the values main() reads from the last two indicator rows
BarCounts(s) == {0, s + WarmupBars - 1, s + WarmupBars, s + WarmupBars + 1}
EmaPairs == {<<R(1), R(2)>>, <<R(2), R(2)>>, <<R(3), R(2)>>}
AdxValues == {NaN, R(ADX_THRESHOLD - 1), R(ADX_THRESHOLD), R(ADX_THRESHOLD + 5)}
YesterdayRows == {[Fast_EMA |-> p[1], Slow_EMA |-> p[2]] : p \in EmaPairs}
TodayRows == {[Fast_EMA |-> p[1], Slow_EMA |-> p[2], ADX |-> a] :
                 p \in EmaPairs, a \in AdxValues}

IndIdle ==
    /\ frame = <<>> /\ fast = 1 /\ slow = 1 /\ ipc = "idle"
    /\ ind = NoRows /\ signal = FALSE

Init ==
    /\ listState \in {"missing", "unreadable", "ok"}
    /\ targets \in (IF listState = "ok" THEN TargetLists ELSE {<<>>})
    /\ webhook \in BOOLEAN
    /\ pc = "start"
    /\ idx = 1
    /\ cur = [kind |-> "none"]
    /\ daily_signals = <<>>
    /\ errlog = <<>>
    /\ sends = <<>>
    /\ IndIdle

\* lines 128-130: the file does not exist: print and return
MissingList ==
    /\ pc = "start"
    /\ listState = "missing"
    /\ pc' = "done"
    /\ UNCHANGED <<listState, targets, webhook, idx, cur, daily_signals, errlog, sends>>
    /\ UNCHANGED indVars

\* line 132: pd.read_csv raises, nothing catches it
UnreadableList ==
    /\ pc = "start"
    /\ listState = "unreadable"
    /\ pc' = "crashed"
    /\ UNCHANGED <<listState, targets, webhook, idx, cur, daily_signals, errlog, sends>>
    /\ UNCHANGED indVars

\* lines 132-137: the list is read, the loop starts
LoadList ==
    /\ pc = "start"
    /\ listState = "ok"
    /\ pc' = "loop"
    /\ UNCHANGED <<listState, targets, webhook, idx, cur, daily_signals, errlog, sends>>
    /\ UNCHANGED indVars

\* the for loop has a row to handle
InLoop == pc = "loop" /\ idx <= Len(targets)
\* variant: the summary block sits inside the loop body
ScanFinished_early == idx > 1

\* the for loop is exhausted
ScanFinished == idx > Len(targets)

\* f"{ticker} | EMA {fast}/{slow} | ADX {adx:.1f}", with the row it is for
SignalLine(i, row, today) ==
    [row |-> i, Ticker |-> row.Ticker, fast |-> IntOf[row.Fast],
     slow |-> IntOf[row.Slow], adx |-> today.ADX]

\* variant: daily_signals.insert(0, ...)
AppendSignal_front(sigs, line) == <<line>> \o sigs

\* daily_signals.append(...)
AppendSignal(sigs, line) == Append(sigs, line)

\* print(f"Error scanning {ticker}: {e}")
LogError(i, what) == Append(errlog, [row |-> i, kind |-> what])

\* lines 138-140: int(row["Fast"]) or int(row["Slow"]) raises ValueError
\* outside the try block: the exception leaves main()
RowMalformed ==
    /\ InLoop
    /\ ~WellFormed(targets[idx])
    /\ pc' = "crashed"
    /\ UNCHANGED <<listState, targets, webhook, idx, cur, daily_signals, errlog, sends>>
    /\ UNCHANGED indVars

\* lines 143-149, 185-186: yf.download raises
FetchFails ==
    /\ InLoop
    /\ WellFormed(targets[idx])
    /\ errlog' = LogError(idx, "fetch")
    /\ cur' = [kind |-> "fetch_error"]
    /\ idx' = idx + 1
    /\ UNCHANGED <<listState, targets, webhook, pc, daily_signals, sends>>
    /\ UNCHANGED indVars

\* lines 151-152: too few bars: continue
SkipShort ==
    /\ InLoop
    /\ WellFormed(targets[idx])
    /\ \E n \in BarCounts(IntOf[targets[idx].Slow]) :
          /\ TooShort(n, IntOf[targets[idx].Slow])
          /\ cur' = [kind |-> "short", n |-> n]
    /\ idx' = idx + 1
    /\ UNCHANGED <<listState, targets, webhook, pc, daily_signals, errlog, sends>>
    /\ UNCHANGED indVars

\* lines 154-157, 185-186: normalising the columns or calculate_indicators
\* raises (a column is missing, a value is not numeric)
ComputeFails ==
    /\ InLoop
    /\ WellFormed(targets[idx])
    /\ \E n \in BarCounts(IntOf[targets[idx].Slow]) :
          /\ ~TooShort(n, IntOf[targets[idx].Slow])
          /\ cur' = [kind |-> "compute_error", n |-> n]
    /\ errlog' = LogError(idx, "compute")
    /\ idx' = idx + 1
    /\ UNCHANGED <<listState, targets, webhook, pc, daily_signals, sends>>
    /\ UNCHANGED indVars

\* lines 157-169: the rows are computed and the test is false
NoSignal ==
    /\ InLoop
    /\ WellFormed(targets[idx])
    /\ \E n \in BarCounts(IntOf[targets[idx].Slow]), y \in YesterdayRows, t \in TodayRows :
          /\ ~TooShort(n, IntOf[targets[idx].Slow])
          /\ ~(bullish_cross(y, t) /\ strong_trend(t))
          /\ cur' = [kind |-> "evaluated", n |-> n, yesterday |-> y, today |-> t]
    /\ idx' = idx + 1
    /\ UNCHANGED <<listState, targets, webhook, pc, daily_signals, errlog, sends>>
    /\ UNCHANGED indVars

\* lines 169-183: the test is true, send_discord_alert_embed returns (no
\* webhook configured, or requests.post returned), the line is appended
SignalAlerted ==
    /\ InLoop
    /\ WellFormed(targets[idx])
    /\ \E n \in BarCounts(IntOf[targets[idx].Slow]), y \in YesterdayRows, t \in TodayRows :
          /\ ~TooShort(n, IntOf[targets[idx].Slow])
          /\ bullish_cross(y, t) /\ strong_trend(t)
          /\ cur' = [kind |-> "evaluated", n |-> n, yesterday |-> y, today |-> t]
          /\ daily_signals' = AppendSignal(daily_signals, SignalLine(idx, targets[idx], t))
    /\ sends' = IF webhook
                THEN Append(sends, [kind |-> "alert", row |-> idx,
                                    pending |-> Len(targets) - idx, ok |-> TRUE])
                ELSE sends
    /\ idx' = idx + 1
    /\ UNCHANGED <<listState, targets, webhook, pc, errlog>>
    /\ UNCHANGED indVars

\* lines 169-179, 47, 185-186: the test is true and requests.post raises; the
\* exception leaves send_discord_alert_embed and is caught by the except of
\* the loop body, before daily_signals.append is reached
SignalAlertFails ==
    /\ InLoop
    /\ WellFormed(targets[idx])
    /\ webhook
    /\ \E n \in BarCounts(IntOf[targets[idx].Slow]), y \in YesterdayRows, t \in TodayRows :
          /\ ~TooShort(n, IntOf[targets[idx].Slow])
          /\ bullish_cross(y, t) /\ strong_trend(t)
          /\ cur' = [kind |-> "evaluated", n |-> n, yesterday |-> y, today |-> t]
    /\ sends' = Append(sends, [kind |-> "alert", row |-> idx,
                               pending |-> Len(targets) - idx, ok |-> FALSE])
    /\ errlog' = LogError(idx, "alert")
    /\ idx' = idx + 1
    /\ UNCHANGED <<listState, targets, webhook, pc, daily_signals>>
    /\ UNCHANGED indVars

\* lines 191-204, 52-69: signals were found: the summary is mailed when the
\* mail account is configured (an SMTP failure is caught inside
\* send_email_alert), then printed
SendSummary ==
    /\ pc = "loop"
    /\ ScanFinished
    /\ daily_signals # <<>>
    /\ \E configured \in BOOLEAN, delivered \in BOOLEAN :
          sends' = IF configured
                   THEN Append(sends, [kind |-> "summary", row |-> 0,
                                       pending |-> Len(targets) - (idx - 1),
                                       ok |-> delivered])
                   ELSE sends
    /\ pc' = "done"
    /\ UNCHANGED <<listState, targets, webhook, idx, cur, daily_signals, errlog>>
    /\ UNCHANGED indVars

\* lines 205-206: print("No signals found today.")
NoSignalsFound ==
    /\ pc = "loop"
    /\ ScanFinished
    /\ daily_signals = <<>>
    /\ pc' = "done"
    /\ UNCHANGED <<listState, targets, webhook, idx, cur, daily_signals, errlog, sends>>
    /\ UNCHANGED indVars

Next ==
    \/ MissingList
    \/ UnreadableList
    \/ LoadList
    \/ RowMalformed
    \/ FetchFails
    \/ SkipShort
    \/ ComputeFails
    \/ NoSignal
    \/ SignalAlerted
    \/ SignalAlertFails
    \/ SendSummary
    \/ NoSignalsFound

Spec == Init /\ [][Next]_vars

\* the exit status of the process: 0 when main() returns, 1 when an
\* exception leaves it
ExitStatus == IF pc = "crashed" THEN 1 ELSE 0
Terminated == pc \in {"done", "crashed"}

(***************************************************************************)
(* Properties                                                              *)
(***************************************************************************)
SignalRows == {daily_signals[i].row : i \in 1..Len(daily_signals)}
SlowOf(i) == IntOf[targets[i].Slow]

\* C1: when the fetch or the indicator computation of target k raises, the
\* loop still handles every target after k, target k contributes no signal
\* and no exception leaves the scan.
C1_FailureIsolated ==
    \A e \in 1..Len(errlog) :
        errlog[e].kind \in {"fetch", "compute"} =>
            /\ errlog[e].row \notin SignalRows
            /\ pc # "crashed"
            /\ (pc = "done" => idx = Len(targets) + 1)

\* C2: a row whose Fast or Slow is not an integer is skipped without aborting
\* the scan: the run ends normally, every other row has been scanned and the
\* malformed row has no signal.
C2_MalformedRowSkipped ==
    \A k \in 1..Len(targets) :
        (Terminated /\ ~WellFormed(targets[k])) =>
            /\ pc = "done"
            /\ idx = Len(targets) + 1
            /\ k \notin SignalRows

\* C3: for a target whose rows were computed, the signal branch is taken if
\* and only if yesterday.Fast_EMA <= yesterday.Slow_EMA, today.Fast_EMA >
\* today.Slow_EMA and today.ADX >= ADX_THRESHOLD; it then acts once for that
\* target (one line appended, or the alert failure logged), and otherwise
\* the iteration leaves no trace.
C3_Conditions(y, t) ==
    /\ IsNum(y.Fast_EMA) /\ IsNum(y.Slow_EMA)
    /\ y.Fast_EMA.n * y.Slow_EMA.d <= y.Slow_EMA.n * y.Fast_EMA.d
    /\ IsNum(t.Fast_EMA) /\ IsNum(t.Slow_EMA)
    /\ t.Fast_EMA.n * t.Slow_EMA.d > t.Slow_EMA.n * t.Fast_EMA.d
    /\ IsNum(t.ADX)
    /\ t.ADX.n >= ADX_THRESHOLD * t.ADX.d

C3_Produced ==
    \/ /\ Len(daily_signals') = Len(daily_signals) + 1
       /\ SubSeq(daily_signals', 1, Len(daily_signals)) = daily_signals
       /\ daily_signals'[Len(daily_signals')].row = idx
       /\ daily_signals'[Len(daily_signals')].adx = cur'.today.ADX
       /\ errlog' = errlog
    \/ /\ daily_signals' = daily_signals
       /\ errlog' = Append(errlog, [row |-> idx, kind |-> "alert"])

C3_NotProduced ==
    daily_signals' = daily_signals /\ errlog' = errlog /\ sends' = sends

C4_AlertFailureKeepsSignal ==
    \A e \in 1..Len(sends) :
        (sends[e].kind = "alert" /\ ~sends[e].ok) => sends[e].row \in SignalRows

\* C5: the reported signals are in target-list order whatever their ADX, and
\* a row contributes at most one signal.
C5_ListOrder ==
    \A i, j \in 1..Len(daily_signals) :
        i < j => daily_signals[i].row < daily_signals[j].row

C5_Witness ==
    /\ Len(daily_signals) >= 2
    /\ RLt(daily_signals[1].adx, daily_signals[2].adx)

\* C6: the exit status is non-zero if and only if the target list is missing
\* or unreadable.
C6_ExitStatus ==
    Terminated => ((ExitStatus # 0) <=> (listState \in {"missing", "unreadable"}))

\* C8: a frame of fewer than slow + 5 bars is skipped silently (no rows
\* computed, no signal, no send, no error line, the loop moves on), and a
\* frame of slow + 5 bars or more is never skipped: its rows are computed.
C8_ShortSkipped ==
    [][(pc = "loop" /\ idx' = idx + 1 /\ cur'.kind \in {"short", "compute_error", "evaluated"}) =>
          IF cur'.n < SlowOf(idx) + 5
          THEN /\ cur'.kind = "short"
               /\ daily_signals' = daily_signals
               /\ sends' = sends
               /\ errlog' = errlog
               /\ pc' = "loop"
          ELSE cur'.kind \in {"compute_error", "evaluated"}]_vars

C8_Witness ==
    /\ pc = "loop"
    /\ cur.kind = "short"
    /\ cur.n = SlowOf(idx - 1) + 4
    /\ idx <= Len(targets)

Computed == ipc \in {"computed", "decided"}

\* a value that a division by zero left undefined
RowUndefined(r) ==
    ~IsNum(r.PlusDI14) \/ ~IsNum(r.MinusDI14) \/ ~IsNum(r.DX) \/ ~IsNum(r.ADX)

\* C7: when yesterday's or today's row holds a value that a division by zero
\* left undefined, no signal is produced.
C7_UndefinedNoSignal ==
    (ipc = "decided" /\ (RowUndefined(ind[Len(ind) - 1]) \/ RowUndefined(ind[Len(ind)])))
        => ~signal

\* the fold of C10: s[1] = x[1], s[i] = s[i-1] + (1/14) * (x[i] - s[i-1]),
\* started at the first defined value
RECURSIVE C10_Fold(_, _, _, _)
C10_Fold(xs, i, prev, out) ==
    IF i > Len(xs) THEN out
    ELSE LET s == IF IsNaN(prev) THEN xs[i]
                  ELSE IF IsNaN(xs[i]) THEN prev
                  ELSE RAdd(prev, RMul(Norm(1, 14), RSub(xs[i], prev)))
         IN  C10_Fold(xs, i + 1, s, Append(out, s))

C10_Column(name) == [i \in 1..Len(ind) |-> ind[i][name]]

\* C10: smoothed TR, smoothed +DM, smoothed -DM and ADX each equal the fold
\* of their input column.
C10_WilderFold ==
    Computed =>
        /\ C10_Column("TR14") = C10_Fold(C10_Column("TR"), 1, NaN, <<>>)
        /\ C10_Column("sPlusDM") = C10_Fold(C10_Column("PlusDM"), 1, NaN, <<>>)
        /\ C10_Column("sMinusDM") = C10_Fold(C10_Column("MinusDM"), 1, NaN, <<>>)
        /\ C10_Column("ADX") = C10_Fold(C10_Column("DX"), 1, NaN, <<>>)
====
